---- MODULE Spec2Model ----
(***************************************************************************)
(* A model of prism (src/main.go): a crawler that lists the repositories   *)
(* of an organisation, records the commits of each repository in a         *)
(* relational store (discovery) and later fills in each commit's metadata  *)
(* (enrichment), on a fixed pool of workers fed by one channel of          *)
(* closures.                                                               *)
(*                                                                         *)
(* The module holds several specifications over one set of variables:      *)
(*   SpecStore   workers running commitsHandler / findOrCreateCommits      *)
(*               against the commits table and its unique index;           *)
(*   SpecFetch   one call of requests: the rate governor, the request,     *)
(*               the validator-token map, the handler and the cursor;      *)
(*   SpecInserter  main -inserter: the pool, the repos driver and its      *)
(*               filter, the commit-listing tasks;                         *)
(*   SpecUpdater   main -updater: the pool, the pollers queryCommits and   *)
(*               queryPulls, the detail-fetch tasks commit and pull;       *)
(*   SpecUpdaterServed  the updater with a store and an upstream that      *)
(*               answer every request, under fair scheduling.              *)
(*   SpecInserterOnce  the inserter without -loop, under fair scheduling.  *)
(*   SpecBoth    main -inserter -updater without -loop: the two pools.     *)
(*   SpecPulls   workers running findOrCreatePulls against the schema of   *)
(*               db.sql;                                                   *)
(*   SpecFetchCached  one call of requests with a validator-token map and  *)
(*               an upstream that answers 200 or 304;                      *)
(*   SpecFetchRepos  the call of requests that repos makes, with the       *)
(*               map main hands it;                                        *)
(*   SpecLink    calls of nextUrl on Link headers.                         *)
(*   SpecInserterLoop  main -inserter -loop with a pool of LoopScale       *)
(*               workers;                                                  *)
(*   SpecUpdaterRefused  the one-shot updater when upstream refuses the    *)
(*               detail url of a record on every fetch, under fair         *)
(*               scheduling.                                               *)
(* Each specification leaves the variables of the others at their initial  *)
(* values.                                                                 *)
(***************************************************************************)
EXTENDS Integers, Sequences, FiniteSets, TLC

(***************************************************************************)
(* Bounds of the model.                                                    *)
(***************************************************************************)
\* number of worker goroutines (flag -scale) in SpecStore
StoreScale == 2
\* longest listing page (number of shas) handed to commitsHandler
MaxPageLen == 1
\* longest chain of pages one call of requests walks (SpecFetch)
MaxPages == 3
\* flag -delay, in seconds
delay == 2
\* furthest quota reset, in seconds after the reading that reports it
MaxReset == 3
\* largest value of flag -scale in SpecInserter
MaxScale == 2
\* flag -scale in SpecInserterLoop, a pool larger than those of SpecInserter
LoopScale == 3
\* largest value of flag -scale in SpecUpdater
MaxUpdaterScale == 3
\* the clock of the pool specifications stops here
MaxClock == 3
\* most pages of one listing of the organisation's repositories
MaxRepoPages == 2
\* most entries of one page of that listing
MaxPerPage == 1
\* most rows of table commits when the updater starts
MaxRows == 2
\* largest value of flag -limit
MaxLimit == 1
\* largest pull request number drawn in SpecPulls
MaxNumber == 2

Repos == {"x", "y"}
Shas == {"abc123", "def456"}

\* SQL NULL, in a column whose values are sequences
NULL == <<>>

StoreWorkers == 1..StoreScale

VARIABLES
    commitsTbl,  \* rows of table commits: [id, repo, sha, email] (org is the one configured org)
    nextId,      \* the next uuid uuid_generate_v4() hands out
    crashed,     \* the process has exited (log.Fatal or an unrecovered panic)
    spc,         \* SpecStore: each worker's position in commitsHandler / findOrCreateCommits
    spage,       \* SpecStore: each worker's (repo, remaining shas of the decoded page)
    discovered,  \* history: natural keys for which a findOrCreateCommits call reached its end
    lost,        \* history: workers whose INSERT was rejected by the unique index
    npages,      \* SpecFetch: length of the chain of pages behind the starting URL
    url,         \* SpecFetch: the url of the loop of requests (NoUrl is "")
    fpc,         \* SpecFetch: position in requests / request
    cache,       \* SpecFetch: etags != nil
    etags,       \* SpecFetch: the validator-token map, url -> token ("" is no entry)
    quota,       \* upstream: X-RateLimit-Remaining is zero ("zero") or not ("ok")
    resetIn,     \* seconds from the last throttled reading to the reset it reported; 0: none pending
    elapsed,     \* seconds since the last throttled reading (saturates at ElapsedCap)
    handled,     \* history: the pages handed to the handler, in order
    throttled,   \* history: the pages with a throttled attempt
    skipped,     \* history: the pages answered with a status other than 200
    linkHdr,     \* SpecLink: the link entries of a response, as its Link header values hold them
    linkGot,     \* SpecLink: what nextUrl returned for them, once it was called
    scale,       \* flag -scale
    loop,        \* flag -loop
    since,       \* flag -since (a timestamp, <<>> is "")
    ignoreEnv,   \* $IGNORE_REPOS, a string as the sequence of its characters
    now,         \* var now: the watermark of this pass (<<>> is "")
    next,        \* var next: the start of this pass
    clock,       \* time.Now(), in seconds (stops at MaxClock)
    mainq,       \* main: the statements main has still to run
    closed,      \* for each pool, whether its channel is closed
    wk,          \* for each worker goroutine: pc, task, and the locals of the task
    limit,       \* flag -limit
    pullsTbl,    \* rows of table pulls: [id, repo, number, commits]
    lastDrop,    \* history: what reposHandler dropped last: an entry ("ignored", "stale") or an "undecodable" page
    lastEnq      \* history: the last commits(repo) task handed to a worker, with the entry and watermark it came from

storeVars == <<commitsTbl, nextId, spc, spage, discovered, lost>>

fetchVars == <<npages, url, fpc, cache, etags, quota, resetIn, elapsed,
               handled, throttled, skipped, linkHdr, linkGot>>

poolVars == <<scale, loop, since, ignoreEnv, now, next, clock, mainq, closed, wk,
              limit, pullsTbl, lastDrop, lastEnq>>

vars == <<crashed, storeVars, fetchVars, poolVars>>

(***************************************************************************)
(* The commits table (src/db.sql) and the statements main.go runs on it.   *)
(***************************************************************************)
\* all sequences over S of length at most n
SeqUpTo(S, n) == UNION {[1..k -> S] : k \in 0..n}

\* a mutant of SelectCommit: the SELECT finds no row
SelectMisses(tbl, repo, sha) == {}

\* SELECT id FROM commits WHERE org=$1 AND repo=$2 AND sha=$3
SelectCommit(tbl, repo, sha) == {r \in tbl : r.repo = repo /\ r.sha = sha}

\* a mutant of the unique index: the index is not unique
NoUniqueIndex(tbl, repo, sha) == FALSE

\* CREATE UNIQUE INDEX commits_on_org_repo_sha: an INSERT of a present key is rejected
commits_on_org_repo_sha(tbl, repo, sha) == SelectCommit(tbl, repo, sha) # {}

\* INSERT INTO commits (org, repo, sha): id by default, every other column NULL
InsertCommit(tbl, id, repo, sha) ==
    tbl \cup {[id |-> id, repo |-> repo, sha |-> sha, email |-> NULL]}

(***************************************************************************)
(* The pool: main, workers, worker, and the unbuffered channel c of        *)
(* closures (make(chan func())).  A send on c completes in the step in     *)
(* which a worker blocked in "range c" receives it.  A task is the record  *)
(* of what its closure captured.                                           *)
(***************************************************************************)
Pools == {"inserter", "updater"}
Workers == ({"inserter"} \X (1..LoopScale)) \cup ({"updater"} \X (1..MaxUpdaterScale))
PoolOf(w) == w[1]

Task(kind, id, repo, sha, number) ==
    [kind |-> kind, id |-> id, repo |-> repo, sha |-> sha, number |-> number]
NoTask == Task("none", 0, "", "", 0)
reposTask == Task("repos", 0, "", "", 0)
commitsTask(repo) == Task("commits", 0, repo, "", 0)

\* worker w: not started, its pc, its task, the task it is sending and where
\* it goes on after the send, the rows (or the entry) its loop is at, the
\* number of entries of the page its loop has still to read, the page of the
\* listing it is at, its local "more", and (history) whether the listing
\* of its repos task went on past a page that no handler walked
Absent == [pc |-> "absent", task |-> NoTask, out |-> NoTask, ret |-> "", rows |-> <<>>,
           left |-> 0, page |-> 0, more |-> FALSE, cut |-> FALSE]
Receiving == [Absent EXCEPT !.pc = "recv"]

\* no commits task handed over yet
NoEnq == [task |-> NoTask, pushed |-> <<>>, now |-> <<>>]

\* the pool at rest: its state in the specifications that do not run it
PoolIdle ==
    /\ scale = 0
    /\ loop = FALSE
    /\ since = <<>>
    /\ ignoreEnv = <<>>
    /\ now = <<>>
    /\ next = <<>>
    /\ clock = 0
    /\ mainq = <<>>
    /\ closed = [p \in Pools |-> FALSE]
    /\ wk = [w \in Workers |-> Absent]
    /\ limit = 0
    /\ pullsTbl = {}
    /\ lastDrop = "none"
    /\ lastEnq = NoEnq

\* a mutant of PassesEtags: commits hands the map on as well
PassesEtagsToCommits(kind) == kind \in {"repos", "commits"}

\* the third argument of requests in the task of that kind: repos hands on
\* its parameter etags, commits, commit and pull pass nil
PassesEtags(kind) == kind = "repos"

\* the pc at which a worker starts the closure it received
StartPc(task) ==
    CASE task.kind = "repos" -> "request"
      [] task.kind = "commits" -> "commits"
      [] task.kind = "queryCommits" -> "query"
      [] task.kind = "queryPulls" -> "query"
      [] task.kind = "commit" -> "request"
      [] task.kind = "pull" -> "request"

Started(w, task) ==
    [Receiving EXCEPT !.pc = StartPc(task), !.task = task,
                      !.page = IF task.kind = "repos" THEN 1 ELSE 0]

\* the closure returned: back to "for f := range c"
Returned == Receiving

\* a row as rows.Scan reads it: id, repo and sha (commits) or number (pulls)
Row(id, repo, sha, number) == [id |-> id, repo |-> repo, sha |-> sha, number |-> number]

\* the closure queryCommits sends for a row: commit(id, repo, sha), the three
\* passed as arguments of the closure's maker
commitClosure(row) == Task("commit", row.id, row.repo, row.sha, 0)

\* the closure queryPulls sends for a row: pull(id, repo, number)
pullClosure(row) == Task("pull", row.id, row.repo, "", row.number)

pollers == {"queryCommits", "queryPulls"}

\* a poller at the top of "for rows.Next()" with rows still to read: it is
\* about to send the closure of the first of them, or it is past the loop
AtRows(rec, rows) ==
    IF rows = <<>>
    THEN [rec EXCEPT !.pc = "done", !.rows = <<>>, !.out = NoTask, !.ret = ""]
    ELSE [rec EXCEPT !.pc = "push", !.rows = rows, !.ret = "loop",
                     !.out = IF rec.task.kind = "queryCommits"
                             THEN commitClosure(Head(rows))
                             ELSE pullClosure(Head(rows))]

\* the sender once its send completed: a closure whose last statement the
\* send was returns; a poller sets more and reads its next row; reposHandler
\* goes on to the next entry of the page
Sent(rec) ==
    CASE rec.ret = "return" -> Returned
      [] rec.ret = "loop" /\ rec.task.kind \in pollers ->
           AtRows([rec EXCEPT !.more = TRUE], Tail(rec.rows))
      [] rec.ret = "loop" /\ rec.task.kind = "repos" ->
           [rec EXCEPT !.pc = "loop", !.out = NoTask, !.ret = "", !.rows = <<>>,
                       !.left = @ - 1]

\* worker r is the one that receives the next closure sent on its channel.
\* The goroutines of a pool run the same code and hold no state of their own
\* between closures, so which of the waiting ones receives makes no
\* difference: the model lets the lowest-numbered waiting worker receive
Receives(r) ==
    /\ wk[r].pc = "recv"
    /\ \A q \in Workers : (PoolOf(q) = PoolOf(r) /\ wk[q].pc = "recv") => r[2] <= q[2]

\* nextUrl has not been called
NotCalled == [done |-> FALSE, url |-> <<>>]

\* the fetch layer at rest: its state in the specifications that do not run it
FetchIdle ==
    /\ npages = 0
    /\ url = 0
    /\ fpc = "returned"
    /\ cache = FALSE
    /\ etags = <<>>
    /\ quota = "ok"
    /\ resetIn = 0
    /\ elapsed = 0
    /\ handled = <<>>
    /\ throttled = {}
    /\ skipped = {}
    /\ linkHdr = <<>>
    /\ linkGot = NotCalled

(***************************************************************************)
(* SpecStore: commitsHandler and findOrCreateCommits on StoreScale workers *)
(***************************************************************************)
\* a row an earlier run discovered and enriched
EnrichedRow == [id |-> 1, repo |-> "x", sha |-> "abc123", email |-> <<"x", "abc123">>]

\* the table holds the row of an earlier run; the other keys have no row, so
\* both branches of findOrCreateCommits are taken
InitStore ==
    /\ commitsTbl = {EnrichedRow}
    /\ nextId = 2
    /\ crashed = FALSE
    /\ spc = [w \in StoreWorkers |-> "idle"]
    /\ spage = [w \in StoreWorkers |-> [repo |-> "x", shas |-> <<>>]]
    /\ discovered = {}
    /\ lost = {}
    /\ FetchIdle
    /\ PoolIdle

\* commitsHandler(repo): a listing page decoded into its shas; the loop starts
commitsHandler(w) ==
    /\ ~crashed
    /\ spc[w] = "idle"
    /\ \E repo \in Repos, shas \in SeqUpTo(Shas, MaxPageLen) :
          /\ spage' = [spage EXCEPT ![w] = [repo |-> repo, shas |-> shas]]
          /\ spc' = [spc EXCEPT ![w] = IF shas = <<>> THEN "idle" ELSE "query"]
    /\ UNCHANGED <<commitsTbl, nextId, crashed, discovered, lost>>
    /\ UNCHANGED <<fetchVars, poolVars>>

\* the loop of commitsHandler moves to the next sha, or the handler returns
NextSha(w) ==
    /\ spage' = [spage EXCEPT ![w].shas = Tail(@)]
    /\ spc' = [spc EXCEPT ![w] = IF Len(spage[w].shas) = 1 THEN "idle" ELSE "query"]

\* findOrCreateCommits, the SELECT: a db error is fatal, a row found returns
findOrCreateCommitsQuery(w) ==
    /\ ~crashed
    /\ spc[w] = "query"
    /\ UNCHANGED <<fetchVars, poolVars>>
    /\ LET repo == spage[w].repo
           sha == Head(spage[w].shas)
       IN \E err \in BOOLEAN :
            IF err
            THEN /\ crashed' = TRUE
                 /\ UNCHANGED <<storeVars, poolVars>>
            ELSE IF SelectCommit(commitsTbl, repo, sha) # {}
            THEN /\ NextSha(w)
                 /\ discovered' = discovered \cup {<<repo, sha>>}
                 /\ UNCHANGED <<commitsTbl, nextId, crashed, lost>>
            ELSE /\ spc' = [spc EXCEPT ![w] = "insert"]
                 /\ UNCHANGED <<commitsTbl, nextId, crashed, spage, discovered, lost>>

\* findOrCreateCommits, the INSERT: any error, the unique index's included, is fatal
findOrCreateCommitsInsert(w) ==
    /\ ~crashed
    /\ spc[w] = "insert"
    /\ UNCHANGED <<fetchVars, poolVars>>
    /\ LET repo == spage[w].repo
           sha == Head(spage[w].shas)
       IN IF commits_on_org_repo_sha(commitsTbl, repo, sha)
          THEN /\ crashed' = TRUE
               /\ lost' = lost \cup {w}
               /\ discovered' = discovered \cup {<<repo, sha>>}
               /\ UNCHANGED <<commitsTbl, nextId, spc, spage>>
          ELSE /\ commitsTbl' = InsertCommit(commitsTbl, nextId, repo, sha)
               /\ nextId' = nextId + 1
               /\ discovered' = discovered \cup {<<repo, sha>>}
               /\ NextSha(w)
               /\ UNCHANGED <<crashed, lost>>

NextStore ==
    \E w \in StoreWorkers :
        \/ commitsHandler(w)
        \/ findOrCreateCommitsQuery(w)
        \/ findOrCreateCommitsInsert(w)

SpecStore == InitStore /\ [][NextStore]_vars

\* the store at rest: its state in the specifications that do not run it
StoreIdle ==
    /\ commitsTbl = {}
    /\ nextId = 1
    /\ spc = [w \in StoreWorkers |-> "idle"]
    /\ spage = [w \in StoreWorkers |-> [repo |-> "x", shas |-> <<>>]]
    /\ discovered = {}
    /\ lost = {}

(***************************************************************************)
(* The fetch layer: nextUrl, rateLimit, rateLimitCheck, request, requests. *)
(* A url is the number of its page in the chain; NoUrl is the empty url.   *)
(* A Link header is a sequence of header values, each a sequence of        *)
(* entries <url>; rel="name".                                              *)
(***************************************************************************)
NoUrl == 0

Min(a, b) == IF a < b THEN a ELSE b

Entry(u, rel) == [url |-> u, rel |-> rel]

RECURSIVE Flatten(_)
Flatten(ss) == IF ss = <<>> THEN <<>> ELSE Head(ss) \o Flatten(Tail(ss))

RECURSIVE FirstRel(_, _)
FirstRel(entries, rel) ==
    IF entries = <<>> THEN NoUrl
    ELSE IF Head(entries).rel = rel THEN Head(entries).url
    ELSE FirstRel(Tail(entries), rel)

\* a mutant of nextUrl: it follows rel="last"
nextUrlLast(link) == FirstRel(Flatten(link), "last")

\* nextUrl: the url of the first entry, over the values of Link in order, with rel "next"
nextUrl(link) == FirstRel(Flatten(link), "next")

\* the Link headers upstream sends with page i of a chain of n pages
PageLinks(i, n) ==
    LET fwd == IF i < n THEN <<Entry(i + 1, "next"), Entry(n, "last")>> ELSE <<>>
        back == IF i > 1 THEN <<Entry(1, "first"), Entry(i - 1, "prev")>> ELSE <<>>
    IN { <<fwd \o back>>,
         <<back \o fwd>>,
         [k \in 1..Len(back \o fwd) |-> <<(back \o fwd)[k]>>] }

\* a mutant of rateLimit: it reports throttled and does not sleep
NoSleep(d) == 0

\* rateLimit, on remaining == 0: time.Sleep(delay seconds), whatever the reset is
SleepSeconds(d) == d

\* a mutant of rateLimit: the reading is never taken as throttled
rateLimitOff(q) == FALSE

\* rateLimit: true (after the sleep) when X-Ratelimit-Remaining is 0
rateLimit(q) == q = "zero"

\* a mutant of request: a throttled response moves to the next page
ThrottledSkips(u, link) == nextUrl(link)

\* request on a throttled response (or pre-flight check): return url
ThrottledUrl(u, link) == u

\* the clock since a throttled reading stops where nothing compares with it any more
ElapsedCap == IF MaxReset > delay THEN MaxReset ELSE delay

StartUrl == IF npages = 0 THEN NoUrl ELSE 1

InitFetch ==
    /\ StoreIdle
    /\ PoolIdle
    /\ crashed = FALSE
    /\ npages \in 0..MaxPages
    /\ url = StartUrl
    /\ fpc = "loop"
    /\ cache \in BOOLEAN
    /\ etags = [u \in 1..MaxPages |-> ""]
    /\ quota \in {"ok", "zero"}
    /\ resetIn = 0
    /\ elapsed = 0
    /\ handled = <<>>
    /\ throttled = {}
    /\ skipped = {}
    /\ linkHdr = <<>>
    /\ linkGot = NotCalled

fetchConfig == <<npages, cache, linkHdr, linkGot>>

\* the sleep of rateLimit after a reading of remaining == 0 that reports a reset T seconds ahead
Throttle(T) ==
    /\ resetIn' = T
    /\ elapsed' = Min(SleepSeconds(delay), ElapsedCap)
    /\ throttled' = throttled \cup {url}

\* requests: the loop test
requests ==
    /\ ~crashed
    /\ fpc = "loop"
    /\ fpc' = IF url = NoUrl THEN "returned" ELSE "check"
    /\ UNCHANGED <<crashed, storeVars, poolVars, fetchConfig, url, etags, quota, resetIn, elapsed,
                   handled, throttled, skipped>>

\* request, first part: rateLimitCheck, the pre-flight GET of /rate_limit
rateLimitCheck ==
    /\ ~crashed
    /\ fpc = "check"
    /\ \E ok \in BOOLEAN :
         IF ~ok
         THEN \* http.DefaultClient.Do failed: log.Fatal
              /\ crashed' = TRUE
              /\ UNCHANGED <<url, fpc, resetIn, elapsed, throttled>>
         ELSE IF rateLimit(quota)
         THEN /\ \E T \in 1..MaxReset : Throttle(T)
              /\ url' = ThrottledUrl(url, <<>>)
              /\ fpc' = "loop"
              /\ UNCHANGED crashed
         ELSE /\ fpc' = "do"
              /\ UNCHANGED <<crashed, url, resetIn, elapsed, throttled>>
    /\ UNCHANGED <<storeVars, poolVars>>
    /\ UNCHANGED <<fetchConfig, etags, quota, handled, skipped>>

\* a mutant of Delivers: the test of the status is the other way round
DeliversOthers(status) == status # 200

\* "if resp.StatusCode != 200 {... return nextUrl(resp.Header)}": only a 200
\* reaches the handler
Delivers(status) == status = 200

\* the validator tokens upstream puts in an Etag header ("" is no header)
Tokens == {"e1", "e2"}

\* request, second part: the GET of url, and everything request does with the
\* response.  Upstream is described by the outcomes of the transport (oks),
\* the statuses it answers with besides 200 and, to a request that carries a
\* token, 304 (errs), and the Etag headers of its responses (tags)
requestDoOf(oks, errs, tags) ==
    /\ ~crashed
    /\ fpc = "do"
    /\ \E ok \in oks :
         IF ~ok
         THEN \* http.DefaultClient.Do failed: log.Fatal
              /\ crashed' = TRUE
              /\ UNCHANGED <<url, fpc, etags, resetIn, elapsed, handled, throttled, skipped>>
         ELSE \E status \in {200} \cup errs \cup (IF cache /\ etags[url] # "" THEN {304} ELSE {}),
                 etag \in tags :
              \E link \in (IF status = 200 THEN {} ELSE {<<>>}) \cup PageLinks(url, npages) :
                IF rateLimit(quota)
                THEN \* the headers of the response report remaining == 0
                     /\ \E T \in 1..MaxReset : Throttle(T)
                     /\ url' = ThrottledUrl(url, link)
                     /\ fpc' = "loop"
                     /\ UNCHANGED <<crashed, etags, handled, skipped>>
                ELSE IF ~Delivers(status)
                THEN /\ url' = nextUrl(link)
                     /\ skipped' = skipped \cup {url}
                     /\ fpc' = "loop"
                     /\ resetIn' = 0
                     /\ elapsed' = 0
                     /\ UNCHANGED <<crashed, etags, handled, throttled>>
                ELSE IF cache /\ etag = ""
                THEN \* resp.Header["Etag"][0] with no Etag header: index out of range
                     /\ crashed' = TRUE
                     /\ UNCHANGED <<url, fpc, etags, resetIn, elapsed, handled, throttled, skipped>>
                ELSE /\ etags' = IF cache THEN [etags EXCEPT ![url] = etag] ELSE etags
                     /\ handled' = Append(handled, url)
                     /\ url' = nextUrl(link)
                     /\ fpc' = "loop"
                     /\ resetIn' = 0
                     /\ elapsed' = 0
                     /\ UNCHANGED <<crashed, throttled, skipped>>
    /\ UNCHANGED <<storeVars, poolVars>>
    /\ UNCHANGED <<fetchConfig, quota>>

\* request, second part, with an upstream and a transport that can do anything
requestDo == requestDoOf(BOOLEAN, {404}, {""} \cup Tokens)

\* the caller calls requests again with the same url and the same map (a later pass)
requestsAgain ==
    /\ ~crashed
    /\ fpc = "returned"
    /\ fpc' = "loop"
    /\ url' = StartUrl
    /\ handled' = <<>>
    /\ throttled' = {}
    /\ skipped' = {}
    /\ UNCHANGED <<crashed, storeVars, poolVars, fetchConfig, etags, quota, resetIn, elapsed>>

\* a second passes while a throttled reading is the last one
Tick ==
    /\ ~crashed
    /\ resetIn # 0
    /\ elapsed < ElapsedCap
    /\ elapsed' = elapsed + 1
    /\ UNCHANGED <<crashed, storeVars, poolVars, fetchConfig, url, fpc, etags, quota, resetIn,
                   handled, throttled, skipped>>

\* upstream: the quota runs out, or is reset
UpstreamQuota ==
    /\ ~crashed
    /\ quota' = IF quota = "ok" THEN "zero" ELSE "ok"
    /\ UNCHANGED <<crashed, storeVars, poolVars, fetchConfig, url, fpc, etags, resetIn, elapsed,
                   handled, throttled, skipped>>

NextFetch ==
    \/ requests
    \/ rateLimitCheck
    \/ requestDo
    \/ requestsAgain
    \/ Tick
    \/ UpstreamQuota

SpecFetch == InitFetch /\ [][NextFetch]_vars

\* the goroutine that runs requests keeps running: every step of it that stays
\* enabled is taken (the sleeps of rateLimit are finite)
SpecFetchFair ==
    /\ SpecFetch
    /\ WF_vars(requests)
    /\ WF_vars(rateLimitCheck)
    /\ WF_vars(requestDo)

\* requests with the map of tokens in use, against an upstream that answers
\* every GET of a page with 200 or, to a token, with 304
InitFetchCached == InitFetch /\ cache

NextFetchCached ==
    \/ requests
    \/ rateLimitCheck
    \/ requestDoOf({TRUE}, {}, {""} \cup Tokens)
    \/ requestsAgain
    \/ Tick
    \/ UpstreamQuota

SpecFetchCached == InitFetchCached /\ [][NextFetchCached]_vars

\* main -inserter: "c <- func() { repos(c, nil) }", and repos hands the etags
\* it was given to requests and to the repos it sends next: etags is nil
reposEtags == FALSE

\* requests as repos calls it in every pass, against an upstream that answers
\* every GET of a page and puts a token in every 200
InitFetchRepos == InitFetch /\ cache = reposEtags

NextFetchRepos ==
    \/ requests
    \/ rateLimitCheck
    \/ requestDoOf({TRUE}, {404}, Tokens)
    \/ requestsAgain
    \/ Tick
    \/ UpstreamQuota

SpecFetchRepos == InitFetchRepos /\ [][NextFetchRepos]_vars

(***************************************************************************)
(* SpecLink: nextUrl on the Link header values of one response, as text.   *)
(* A string is the sequence of its symbols: the characters nextUrl and     *)
(* urlRe look at ("<", ">", "," and the quote), the literal "; rel=" of    *)
(* urlRe as one symbol, and a word for every other run of characters.      *)
(* (The loop of requests above takes the entries as parsed: the urls of    *)
(* its chains of pages hold no comma.)                                     *)
(***************************************************************************)
\* the relations of the link entries upstream sends
Relations == {"first", "prev", "next", "last"}

\* the urls of link entries: one with no comma, one with a comma in its query
LinkUrls == {<<"u">>, <<"u", ",", "v">>}

LinkEntries == [url : LinkUrls, rel : Relations]

\* the lists of link entries of a response: at most one entry per relation,
\* in any order
EntryLists ==
    {es \in UNION {[1..k -> LinkEntries] : k \in 0..Cardinality(Relations)} :
        \A a, b \in DOMAIN es : es[a].rel = es[b].rel => a = b}

\* the entries as the header holds them: all in one value, or one value each
\* (no value when there is no entry)
LinkHeaders ==
    {<<es>> : es \in EntryLists \ {<<>>}} \cup {[k \in DOMAIN es |-> <<es[k]>>] : es \in EntryLists}

\* the text of a link entry: <url>; rel="relation"
EntryText(e) == <<"<">> \o e.url \o <<">", "; rel=", "\"", e.rel, "\"">>

\* the text of a header value: its entries, ", " between them
RECURSIVE ValueText(_)
ValueText(es) ==
    IF Len(es) = 1 THEN EntryText(es[1])
    ELSE EntryText(Head(es)) \o <<",", " ">> \o ValueText(Tail(es))

\* hdr["Link"]: the texts of the values, in order
LinkValues(hdr) == [k \in DOMAIN hdr |-> ValueText(hdr[k])]

\* strings.Split(link, ","): the pieces of link between commas, in order
RECURSIVE SplitInOrder(_, _)
SplitInOrder(str, piece) ==
    IF str = <<>> THEN <<piece>>
    ELSE IF Head(str) = "," THEN <<piece>> \o SplitInOrder(Tail(str), <<>>)
    ELSE SplitInOrder(Tail(str), Append(piece, Head(str)))

\* urlRe.FindStringSubmatch(s) for urlRe = <(.*)>; rel="(.*)": the leftmost
\* match, each (.*) as long as it can be; the match and its two groups, or
\* nothing when s has no match
urlRe(s) ==
    LET n == Len(s)
        Ok(i, j, k) == /\ i < j /\ j + 2 < k
                       /\ s[i] = "<" /\ s[j] = ">" /\ s[j + 1] = "; rel=" /\ s[j + 2] = "\""
                       /\ s[k] = "\""
        starts == {i \in 1..n : \E j, k \in 1..n : Ok(i, j, k)}
    IN IF starts = {} THEN <<>>
       ELSE LET i == CHOOSE a \in starts : \A b \in starts : a <= b
                js == {j \in 1..n : \E k \in 1..n : Ok(i, j, k)}
                j == CHOOSE a \in js : \A b \in js : a >= b
                ks == {k \in 1..n : Ok(i, j, k)}
                k == CHOOSE a \in ks : \A b \in ks : a >= b
            IN <<SubSeq(s, i, k), SubSeq(s, i + 1, j - 1), SubSeq(s, j + 3, k - 1)>>

\* the loops of nextUrl over the pieces: the first group of the first piece
\* that matches with "next" as its second group, or ""
RECURSIVE FirstNext(_)
FirstNext(pieces) ==
    IF pieces = <<>> THEN <<>>
    ELSE LET ms == urlRe(Head(pieces))
         IN IF Len(ms) = 3 /\ ms[3] = <<"next">> THEN ms[2] ELSE FirstNext(Tail(pieces))

\* nextUrl(hdr) on the text of the Link values
nextUrlText(values) ==
    FirstNext(Flatten([k \in DOMAIN values |-> SplitInOrder(values[k], <<>>)]))

InitLink ==
    /\ StoreIdle
    /\ PoolIdle
    /\ crashed = FALSE
    /\ npages = 0
    /\ url = 0
    /\ fpc = "returned"
    /\ cache = FALSE
    /\ etags = <<>>
    /\ quota = "ok"
    /\ resetIn = 0
    /\ elapsed = 0
    /\ handled = <<>>
    /\ throttled = {}
    /\ skipped = {}
    /\ linkHdr \in LinkHeaders
    /\ linkGot = NotCalled

\* request: return nextUrl(resp.Header)
nextUrlCall ==
    /\ ~linkGot.done
    /\ linkGot' = [done |-> TRUE, url |-> nextUrlText(LinkValues(linkHdr))]
    /\ UNCHANGED <<crashed, storeVars, poolVars, npages, url, fpc, cache, etags, quota, resetIn,
                   elapsed, handled, throttled, skipped, linkHdr>>

NextLink == nextUrlCall

SpecLink == InitLink /\ [][NextLink]_vars

(***************************************************************************)
(* Timestamps are strings in the layout iso8601, compared as bytes.  The   *)
(* model writes a time t in two fixed-width digits.                        *)
(***************************************************************************)
iso8601(t) == <<t \div 2, t % 2>>

\* bytes.Compare
RECURSIVE bytesCompare(_, _)
bytesCompare(a, b) ==
    IF a = <<>> /\ b = <<>> THEN 0
    ELSE IF a = <<>> THEN -1
    ELSE IF b = <<>> THEN 1
    ELSE IF Head(a) < Head(b) THEN -1
    ELSE IF Head(a) > Head(b) THEN 1
    ELSE bytesCompare(Tail(a), Tail(b))

\* a mutant of pushedOk: the comparison with now looks the wrong way
pushedOkReversed(pushed, nowS, sinceS) ==
    /\ ~(nowS # <<>> /\ bytesCompare(nowS, pushed) = -1)
    /\ ~(sinceS # <<>> /\ bytesCompare(sinceS, pushed) = 1)

\* pushedOk: false when now, or since, is set and after pushed
pushedOk(pushed, nowS, sinceS) ==
    /\ ~(nowS # <<>> /\ bytesCompare(nowS, pushed) = 1)
    /\ ~(sinceS # <<>> /\ bytesCompare(sinceS, pushed) = 1)

\* strings.Split(s, ","): the pieces of s between commas
RECURSIVE Split(_, _)
Split(str, piece) ==
    IF str = <<>> THEN {piece}
    ELSE IF Head(str) = "," THEN {piece} \cup Split(Tail(str), <<>>)
    ELSE Split(Tail(str), Append(piece, Head(str)))

\* makeIgnored: the set of the pieces of $IGNORE_REPOS
makeIgnored(ignore) == Split(ignore, <<>>)

\* ignores[name], a repository name being the string of its one character
ignores(name) == <<name>> \in makeIgnored(ignoreEnv)

\* a mutant of the filter of reposHandler: the ignore set is not consulted
filterNoIgnore(r) == pushedOk(r.pushed, now, since)

\* reposHandler: !ignores[r.Name] && pushedOk(r.Pushed_at)
reposFilter(r) == ~ignores(r.name) /\ pushedOk(r.pushed, now, since)

\* the entries a listing page can hold: a name and pushed_at (<<>> when null)
RepoEntries ==
    [name : Repos, pushed : {<<>>} \cup {iso8601(u) : u \in 0..MaxClock}]

(***************************************************************************)
(* SpecInserter: main -inserter.                                           *)
(***************************************************************************)
InitInserter ==
    /\ StoreIdle
    /\ FetchIdle
    /\ crashed = FALSE
    /\ scale \in 1..MaxScale
    /\ loop \in BOOLEAN
    /\ since \in {<<>>, iso8601(1)}
    /\ ignoreEnv \in {<<>>, <<"z", ",", "y">>}
    /\ now = <<>>
    /\ clock = 1
    /\ next = iso8601(clock)
    /\ mainq = <<[op |-> "workers", pool |-> "inserter", task |-> NoTask],
                 [op |-> "send", pool |-> "inserter", task |-> reposTask],
                 [op |-> "wait", pool |-> "inserter", task |-> NoTask]>>
    /\ closed = [p \in Pools |-> FALSE]
    /\ wk = [w \in Workers |-> Absent]
    /\ limit = 0
    /\ pullsTbl = {}
    /\ lastDrop = "none"
    /\ lastEnq = NoEnq

poolConfig == <<scale, loop, since, ignoreEnv, limit>>

\* workers(c): wg.Add(scale) and scale goroutines in "range c"
workers ==
    /\ ~crashed
    /\ mainq # <<>> /\ Head(mainq).op = "workers"
    /\ wk' = [w \in Workers |->
                IF PoolOf(w) = Head(mainq).pool /\ w[2] <= scale THEN Receiving ELSE wk[w]]
    /\ mainq' = Tail(mainq)
    /\ UNCHANGED <<crashed, storeVars, fetchVars, poolConfig, now, next, clock, closed, pullsTbl, lastDrop, lastEnq>>

\* main: c <- func() {...}, received by worker r
mainSend(r) ==
    /\ ~crashed
    /\ mainq # <<>> /\ Head(mainq).op = "send"
    /\ PoolOf(r) = Head(mainq).pool
    /\ Receives(r)
    /\ ~closed[PoolOf(r)]
    /\ wk' = [wk EXCEPT ![r] = Started(r, Head(mainq).task)]
    /\ mainq' = Tail(mainq)
    /\ UNCHANGED <<crashed, storeVars, fetchVars, poolConfig, now, next, clock, closed, pullsTbl, lastDrop, lastEnq>>

\* main: a send on a channel a task has closed panics
mainSendClosed ==
    /\ ~crashed
    /\ mainq # <<>> /\ Head(mainq).op = "send"
    /\ closed[Head(mainq).pool]
    /\ crashed' = TRUE
    /\ UNCHANGED <<storeVars, fetchVars, poolVars>>

\* main: wg.Wait() returns when every worker has called wg.Done; main returns
mainWait ==
    /\ ~crashed
    /\ mainq # <<>> /\ Head(mainq).op = "wait"
    /\ \A w \in Workers : wk[w].pc \in {"absent", "exited"}
    /\ mainq' = Tail(mainq)
    /\ UNCHANGED <<crashed, storeVars, fetchVars, poolConfig, now, next, clock, closed, wk, pullsTbl, lastDrop, lastEnq>>

\* a mutant of workerExit: close(c) ends the range of one worker only
workerExitOne(w) ==
    /\ ~crashed
    /\ w[2] = 1
    /\ wk[w].pc = "recv"
    /\ closed[PoolOf(w)]
    /\ wk' = [wk EXCEPT ![w].pc = "exited"]
    /\ UNCHANGED <<crashed, storeVars, fetchVars, poolConfig, now, next, clock, mainq, closed, pullsTbl, lastDrop, lastEnq>>

\* worker: "range c" ends on the closed channel; wg.Done
workerExit(w) ==
    /\ ~crashed
    /\ wk[w].pc = "recv"
    /\ closed[PoolOf(w)]
    /\ wk' = [wk EXCEPT ![w].pc = "exited"]
    /\ UNCHANGED <<crashed, storeVars, fetchVars, poolConfig, now, next, clock, mainq, closed, pullsTbl, lastDrop, lastEnq>>

\* a task body: c <- closure, received by worker r; the sender goes on
send(s, r) ==
    /\ ~crashed
    /\ wk[s].pc = "push"
    /\ s # r /\ PoolOf(r) = PoolOf(s)
    /\ Receives(r)
    /\ ~closed[PoolOf(s)]
    /\ wk' = [wk EXCEPT ![r] = Started(r, wk[s].out), ![s] = Sent(wk[s])]
    /\ lastEnq' = IF wk[s].out.kind = "commits"
                  THEN [task |-> wk[s].out, pushed |-> Head(wk[s].rows).pushed, now |-> now]
                  ELSE lastEnq
    /\ UNCHANGED <<crashed, storeVars, fetchVars, poolConfig, now, next, clock, mainq, closed, pullsTbl, lastDrop>>

\* a task body: a send on the closed channel panics
sendClosed(s) ==
    /\ ~crashed
    /\ wk[s].pc = "push"
    /\ closed[PoolOf(s)]
    /\ crashed' = TRUE
    /\ UNCHANGED <<storeVars, fetchVars, poolVars>>

\* a mutant of Undecoded: reposHandler walks what was decoded before the error
UndecodedWalked(rec, nextPage) == [rec EXCEPT !.pc = "loop", !.left = 1, !.page = nextPage]

\* reposHandler on a body that does not decode: it logs and returns, request
\* returns nextUrl(resp.Header), and the loop of requests is at the next page
\* or past the last
Undecoded(rec, nextPage) ==
    [rec EXCEPT !.pc = IF nextPage = 0 THEN "done" ELSE "request", !.page = nextPage,
                !.cut = TRUE]

\* repos: one attempt of request on the page of the listing the loop of
\* requests is at (etags is nil); in SpecFetch the steps inside the attempt.
\* Upstream's listing is arbitrary: the model draws the length of a decoded
\* page here and each entry when the loop of reposHandler reaches it
reposRequest(w) ==
    /\ ~crashed
    /\ wk[w].pc = "request" /\ wk[w].task.kind = "repos"
    /\ \E outcome \in {"fatal", "throttled", "status", "undecodable", "page"},
          more \in BOOLEAN,
          len \in 0..MaxPerPage :
         LET nextPage == IF more /\ wk[w].page < MaxRepoPages THEN wk[w].page + 1 ELSE 0
             ended == [wk EXCEPT ![w] = [@ EXCEPT !.pc = IF nextPage = 0 THEN "done" ELSE "request",
                                                  !.page = nextPage, !.cut = TRUE]]
         IN CASE outcome = "fatal" ->
                   /\ crashed' = TRUE
                   /\ UNCHANGED <<wk, clock, lastDrop>>
              [] outcome = "throttled" ->
                   \* rateLimit slept; request returned the same url
                   /\ clock' = Min(clock + SleepSeconds(delay), MaxClock)
                   /\ UNCHANGED <<crashed, wk, lastDrop>>
              [] outcome = "status" ->
                   /\ wk' = ended
                   /\ UNCHANGED <<crashed, clock, lastDrop>>
              [] outcome = "undecodable" ->
                   /\ wk' = [wk EXCEPT ![w] = Undecoded(wk[w], nextPage)]
                   /\ lastDrop' = "undecodable"
                   /\ UNCHANGED <<crashed, clock>>
              [] outcome = "page" ->
                   /\ wk' = [wk EXCEPT ![w] = [@ EXCEPT !.pc = "loop", !.left = len,
                                                        !.page = nextPage]]
                   /\ UNCHANGED <<crashed, clock, lastDrop>>
    /\ UNCHANGED <<storeVars, fetchVars, poolConfig, now, next, mainq, closed, pullsTbl,
                   lastEnq>>

\* reposHandler: the loop over the decoded entries; an entry r that passes the
\* filter is sent to c as commits(r.Name)
reposHandler(w) ==
    /\ ~crashed
    /\ wk[w].pc = "loop" /\ wk[w].task.kind = "repos"
    /\ IF wk[w].left = 0
       THEN /\ wk' = [wk EXCEPT ![w].pc = IF wk[w].page = 0 THEN "done" ELSE "request"]
            /\ UNCHANGED lastDrop
       ELSE \E r \in RepoEntries :
              IF reposFilter(r)
              THEN /\ wk' = [wk EXCEPT ![w] = [@ EXCEPT !.pc = "push", !.ret = "loop",
                                                       !.rows = <<r>>,
                                                       !.out = commitsTask(r.name)]]
                   /\ UNCHANGED lastDrop
              ELSE /\ wk' = [wk EXCEPT ![w].left = @ - 1]
                   /\ lastDrop' = IF ignores(r.name) THEN "ignored" ELSE "stale"
    /\ UNCHANGED <<crashed, storeVars, fetchVars, poolConfig, now, next, clock, mainq, closed,
                   pullsTbl, lastEnq>>

\* a mutant of nowNext: next is assigned first, and now from the new next
nowNextInOrder(nx, t) == <<iso8601(t), iso8601(t)>>

\* "now, next = next, time.Now().Format(iso8601)" at time t: the new now and
\* the new next
nowNext(nx, t) == <<nx, iso8601(t)>>

\* repos, after requests returned: sleep, move now and next on and send repos
\* again; or close the channel
reposDone(w) ==
    /\ ~crashed
    /\ wk[w].pc = "done" /\ wk[w].task.kind = "repos"
    /\ IF loop
       THEN /\ clock' = Min(clock + delay, MaxClock)
            /\ now' = nowNext(next, clock')[1]
            /\ next' = nowNext(next, clock')[2]
            /\ wk' = [wk EXCEPT ![w] = [@ EXCEPT !.pc = "push", !.ret = "return",
                                                 !.out = reposTask]]
            /\ UNCHANGED <<crashed, closed>>
       ELSE IF closed[PoolOf(w)]
       THEN \* close of a closed channel panics
            /\ crashed' = TRUE
            /\ UNCHANGED <<now, next, clock, closed, wk>>
       ELSE /\ closed' = [closed EXCEPT ![PoolOf(w)] = TRUE]
            /\ wk' = [wk EXCEPT ![w] = Returned]
            /\ UNCHANGED <<crashed, now, next, clock>>
    /\ UNCHANGED <<storeVars, fetchVars, poolConfig, mainq, pullsTbl, lastDrop, lastEnq>>

\* commits(repo): requests over the commit listing with commitsHandler; its
\* steps on the store are those of SpecStore.  It returns, or a log.Fatal in
\* it ends the process
commits(w) ==
    /\ ~crashed
    /\ wk[w].pc = "commits"
    /\ \E fatal \in BOOLEAN :
         IF fatal
         THEN crashed' = TRUE /\ UNCHANGED wk
         ELSE wk' = [wk EXCEPT ![w] = Returned] /\ UNCHANGED crashed
    /\ UNCHANGED <<storeVars, fetchVars, poolConfig, now, next, clock, mainq, closed, pullsTbl, lastDrop, lastEnq>>

\* a second passes
clockTick ==
    /\ ~crashed
    /\ clock < MaxClock
    /\ clock' = clock + 1
    /\ UNCHANGED <<crashed, storeVars, fetchVars, poolConfig, now, next, mainq, closed, wk, pullsTbl, lastDrop, lastEnq>>

NextInserter ==
    \/ workers
    \/ mainWait
    \/ clockTick
    \/ \E w \in Workers :
        \/ mainSend(w)
        \/ workerExit(w)
        \/ reposRequest(w)
        \/ reposHandler(w)
        \/ reposDone(w)
        \/ commits(w)
        \/ \E r \in Workers : send(w, r)

SpecInserter == InitInserter /\ [][NextInserter]_vars

\* the steps of main in the inserter
inserterMain ==
    \/ workers
    \/ mainWait
    \/ \E w \in Workers : mainSend(w)

\* the steps of worker goroutine w in the inserter
inserterWorker(w) ==
    \/ workerExit(w)
    \/ reposRequest(w)
    \/ reposHandler(w)
    \/ reposDone(w)
    \/ commits(w)
    \/ \E r \in Workers : send(w, r)

\* main -inserter without -loop and without -since
InitInserterOnce == InitInserter /\ ~loop /\ since = <<>>

\* the one-shot inserter; main and every worker goroutine keep running: a
\* step of one of them that stays possible is taken
SpecInserterOnce ==
    /\ InitInserterOnce
    /\ [][NextInserter]_vars
    /\ WF_vars(inserterMain)
    /\ \A i \in 1..MaxScale : WF_vars(inserterWorker(<<"inserter", i>>))

(***************************************************************************)
(* SpecInserterLoop: main -inserter -loop with LoopScale workers, without  *)
(* -since and with no repository ignored.  No task closes the channel, so  *)
(* no worker leaves its range and main stays in wg.Wait.                   *)
(***************************************************************************)
InitInserterLoop ==
    /\ StoreIdle
    /\ FetchIdle
    /\ crashed = FALSE
    /\ scale = LoopScale
    /\ loop = TRUE
    /\ since = <<>>
    /\ ignoreEnv = <<>>
    /\ now = <<>>
    /\ clock = 1
    /\ next = iso8601(clock)
    /\ mainq = <<[op |-> "workers", pool |-> "inserter", task |-> NoTask],
                 [op |-> "send", pool |-> "inserter", task |-> reposTask],
                 [op |-> "wait", pool |-> "inserter", task |-> NoTask]>>
    /\ closed = [p \in Pools |-> FALSE]
    /\ wk = [w \in Workers |-> Absent]
    /\ limit = 0
    /\ pullsTbl = {}
    /\ lastDrop = "none"
    /\ lastEnq = NoEnq

NextInserterLoop ==
    \/ workers
    \/ clockTick
    \/ \E w \in Workers :
        \/ mainSend(w)
        \/ reposRequest(w)
        \/ reposHandler(w)
        \/ reposDone(w)
        \/ commits(w)
        \/ \E r \in Workers : send(w, r)

SpecInserterLoop == InitInserterLoop /\ [][NextInserterLoop]_vars

(***************************************************************************)
(* SpecUpdater: main -updater.  queryCommits and queryPulls are seeded on  *)
(* one channel; each polls its table and sends a detail-fetch closure per  *)
(* row found.  The sleeps of this mode change nothing the specification    *)
(* looks at: the clock stays where it is.                                  *)
(***************************************************************************)
\* the natural key of the i-th row table commits holds when the updater starts
KeyAt(i) ==
    CASE i % 4 = 1 -> <<"y", "def456">>
      [] i % 4 = 2 -> <<"x", "abc123">>
      [] i % 4 = 3 -> <<"x", "def456">>
      [] i % 4 = 0 -> <<"y", "abc123">>

\* table commits after discovery recorded k commits: every enrichment column NULL
Discovered(k) ==
    {[id |-> i, repo |-> KeyAt(i)[1], sha |-> KeyAt(i)[2], email |-> NULL] : i \in 1..k}

\* SELECT id, repo, sha FROM commits WHERE org=$1 AND email IS NULL
UnsetCommits(tbl) == {Row(r.id, r.repo, r.sha, 0) : r \in {q \in tbl : q.email = NULL}}

\* SELECT id, repo, number FROM pulls WHERE org=$1 AND commits IS NULL
UnsetPulls(tbl) == {Row(r.id, r.repo, "", r.number) : r \in {q \in tbl : q.commits = NULL}}

\* LIMIT $2 with no ORDER BY: any lim of the rows (all of them when there are
\* fewer), in any order
Limited(S, lim) ==
    LET n == Min(lim, Cardinality(S))
    IN {s \in [1..n -> S] : \A j, k \in 1..n : s[j] = s[k] => j = k}

\* a mutant of commitUrl: the repo of the url is not the repo passed
commitUrlOtherRepo(repo, sha) == <<"x", sha>>

\* commitUrl: the detail url names the repo and the sha (the org is fixed)
commitUrl(repo, sha) == <<repo, sha>>

\* what upstream serves at a detail url: the metadata of the commit the url names
Served(u) == u

\* a mutant of updateCommits: the UPDATE has no WHERE clause
updateCommitsEveryRow(tbl, id, data) == {[r EXCEPT !.email = data] : r \in tbl}

\* UPDATE commits SET email=$2, ... WHERE id=$1
updateCommits(tbl, id, data) ==
    {IF r.id = id THEN [r EXCEPT !.email = data] ELSE r : r \in tbl}

InitUpdater ==
    /\ FetchIdle
    /\ crashed = FALSE
    /\ \E k \in 0..MaxRows : commitsTbl = Discovered(k) /\ nextId = k + 1
    /\ spc = [w \in StoreWorkers |-> "idle"]
    /\ spage = [w \in StoreWorkers |-> [repo |-> "x", shas |-> <<>>]]
    /\ discovered = {}
    /\ lost = {}
    /\ scale \in 1..MaxUpdaterScale
    /\ loop \in BOOLEAN
    /\ since = <<>>
    /\ ignoreEnv = <<>>
    /\ now = <<>>
    /\ next = <<>>
    /\ clock = 0
    /\ mainq = <<[op |-> "workers", pool |-> "updater", task |-> NoTask],
                 [op |-> "send", pool |-> "updater", task |-> Task("queryCommits", 0, "", "", 0)],
                 [op |-> "send", pool |-> "updater", task |-> Task("queryPulls", 0, "", "", 0)],
                 [op |-> "wait", pool |-> "updater", task |-> NoTask]>>
    /\ closed = [p \in Pools |-> FALSE]
    /\ wk = [w \in Workers |-> Absent]
    /\ limit \in 1..MaxLimit
    /\ pullsTbl \in {{}, {[id |-> 1, repo |-> "x", number |-> 1, commits |-> NULL]}}
    /\ lastDrop = "none"
    /\ lastEnq = NoEnq

updaterFrame == <<nextId, spc, spage, discovered, lost, fetchVars, poolConfig, now, next,
                  clock, mainq, pullsTbl, lastDrop, lastEnq>>

\* queryCommits, queryPulls: db.Query fails, log.Fatal
queryError(w) ==
    /\ ~crashed
    /\ wk[w].pc = "query" /\ wk[w].task.kind \in pollers
    /\ crashed' = TRUE
    /\ UNCHANGED <<commitsTbl, closed, wk, updaterFrame>>

\* queryCommits, queryPulls: db.Query hands back the rows, the loop starts
queryRows(w) ==
    /\ ~crashed
    /\ wk[w].pc = "query" /\ wk[w].task.kind \in pollers
    /\ \E rows \in Limited(IF wk[w].task.kind = "queryCommits"
                           THEN UnsetCommits(commitsTbl)
                           ELSE UnsetPulls(pullsTbl), limit) :
         wk' = [wk EXCEPT ![w] = AtRows([@ EXCEPT !.more = FALSE], rows)]
    /\ UNCHANGED <<crashed, commitsTbl, closed, updaterFrame>>

\* a mutant of sendsAgain: -loop is not looked at
sendsAgainIfMore(more, lp) == more

\* "if more {...} else { if *loop {...} else { close(c) } }": the poll sends
\* itself again when it found a row or the process loops
sendsAgain(more, lp) == more \/ lp

\* queryCommits, queryPulls after the loop: send oneself again when a row was
\* found; otherwise sleep and send oneself again (-loop), or close(c)
queryDone(w) ==
    /\ ~crashed
    /\ wk[w].pc = "done" /\ wk[w].task.kind \in pollers
    /\ IF sendsAgain(wk[w].more, loop)
       THEN /\ wk' = [wk EXCEPT ![w] = [@ EXCEPT !.pc = "push", !.ret = "return",
                                                 !.out = wk[w].task]]
            /\ UNCHANGED <<crashed, closed>>
       ELSE IF closed[PoolOf(w)]
       THEN \* close of a closed channel panics
            /\ crashed' = TRUE
            /\ UNCHANGED <<closed, wk>>
       ELSE /\ closed' = [closed EXCEPT ![PoolOf(w)] = TRUE]
            /\ wk' = [wk EXCEPT ![w] = Returned]
            /\ UNCHANGED crashed
    /\ UNCHANGED <<commitsTbl, updaterFrame>>

\* commit(id, repo, sha): requests(commitUrl(repo, sha), commitHandler(id, repo,
\* sha), nil), when the fetch of the detail url does not end in a write: the
\* transport or the UPDATE fails (log.Fatal), the attempt is throttled
\* (rateLimit sleeps and request returns the same url), or the response has
\* another status than 200 or a body that does not decode (the task returns).
\* In SpecFetch the steps inside an attempt
commitFailed(w) ==
    /\ ~crashed
    /\ wk[w].pc = "request" /\ wk[w].task.kind = "commit"
    /\ \E outcome \in {"fatal", "throttled", "status", "undecodable", "dberr"} :
         CASE outcome \in {"fatal", "dberr"} ->
                /\ crashed' = TRUE
                /\ UNCHANGED wk
           [] outcome = "throttled" ->
                UNCHANGED <<crashed, wk>>
           [] outcome \in {"status", "undecodable"} ->
                /\ wk' = [wk EXCEPT ![w] = Returned]
                /\ UNCHANGED crashed
    /\ UNCHANGED <<commitsTbl, closed, updaterFrame>>

\* commit(id, repo, sha) when the detail url answers 200 with a decodable
\* body: commitHandler calls updateCommits(id, ...) with what the body holds;
\* a detail response carries no "next" link, requests returns
commitFetched(w) ==
    /\ ~crashed
    /\ wk[w].pc = "request" /\ wk[w].task.kind = "commit"
    /\ commitsTbl' = updateCommits(commitsTbl, wk[w].task.id,
                                   Served(commitUrl(wk[w].task.repo, wk[w].task.sha)))
    /\ wk' = [wk EXCEPT ![w] = Returned]
    /\ UNCHANGED <<crashed, closed, updaterFrame>>

\* pull(id, repo, number): pullUrl formats the int number with %s, the url holds
\* "%!s(int=N)", http.NewRequest rejects it and request calls log.Fatal
pull(w) ==
    /\ ~crashed
    /\ wk[w].pc = "request" /\ wk[w].task.kind = "pull"
    /\ crashed' = TRUE
    /\ UNCHANGED <<storeVars, fetchVars, poolVars>>

\* the steps of worker goroutine w in the updater, but for the failures of
\* the store and of upstream
updaterWorker(w) ==
    \/ workerExit(w)
    \/ queryRows(w)
    \/ queryDone(w)
    \/ commitFetched(w)
    \/ pull(w)
    \/ sendClosed(w)
    \/ \E r \in Workers : send(w, r)

\* the steps of main in the updater.  main stays in wg.Wait(): a poller ends
\* only by close(c), so with both pollers seeded the second close, or a send
\* after the first, ends the process
updaterMain ==
    \/ workers
    \/ mainSendClosed
    \/ \E w \in Workers : mainSend(w)

NextUpdater ==
    \/ updaterMain
    \/ \E w \in Workers :
        \/ updaterWorker(w)
        \/ queryError(w)
        \/ commitFailed(w)

SpecUpdater == InitUpdater /\ [][NextUpdater]_vars

\* the updater with a store that answers every statement and an upstream that
\* answers every detail fetch 200 with a decodable body
NextUpdaterServed ==
    \/ updaterMain
    \/ \E w \in Workers : updaterWorker(w)

\* main and every worker goroutine keep running: a step of one of them that
\* stays possible is taken
SpecUpdaterServed ==
    /\ InitUpdater
    /\ [][NextUpdaterServed]_vars
    /\ WF_vars(updaterMain)
    /\ \A w \in Workers : WF_vars(updaterWorker(w))

(***************************************************************************)
(* SpecUpdaterRefused: main -updater without -loop, with MaxUpdaterScale   *)
(* workers, when upstream answers the detail url of some records with a    *)
(* non-success status on every fetch, and every other fetch and every      *)
(* statement of the store succeeds.                                        *)
(***************************************************************************)
\* the ids of the records whose detail url upstream refuses
Refused == {1}

InitUpdaterRefused == InitUpdater /\ ~loop /\ scale = MaxUpdaterScale

\* commit(id, repo, sha) on a refused record: the response has another status
\* than 200, request returns without calling commitHandler, the task returns
commitRefused(w) ==
    /\ wk[w].task.id \in Refused
    /\ commitFailed(w)
    /\ wk'[w] = Returned

\* commit(id, repo, sha) on any other record
commitServed(w) ==
    /\ wk[w].task.id \notin Refused
    /\ commitFetched(w)

\* the steps of worker goroutine w
refusedWorker(w) ==
    \/ workerExit(w)
    \/ queryRows(w)
    \/ queryDone(w)
    \/ commitRefused(w)
    \/ commitServed(w)
    \/ pull(w)
    \/ sendClosed(w)
    \/ \E r \in Workers : send(w, r)

NextUpdaterRefused ==
    \/ updaterMain
    \/ \E w \in Workers : refusedWorker(w)

\* main and every worker goroutine keep running: a step of one of them that
\* stays possible is taken
SpecUpdaterRefused ==
    /\ InitUpdaterRefused
    /\ [][NextUpdaterRefused]_vars
    /\ WF_vars(updaterMain)
    /\ \A w \in Workers : WF_vars(refusedWorker(w))

(***************************************************************************)
(* SpecBoth: main -inserter -updater.  main runs both blocks, each with a  *)
(* channel and scale workers of its own, and then waits for all of them.   *)
(* One configuration: no -loop, one discovered commit, no pull.            *)
(***************************************************************************)
InitBoth ==
    /\ FetchIdle
    /\ crashed = FALSE
    /\ commitsTbl = Discovered(1)
    /\ nextId = 2
    /\ spc = [w \in StoreWorkers |-> "idle"]
    /\ spage = [w \in StoreWorkers |-> [repo |-> "x", shas |-> <<>>]]
    /\ discovered = {}
    /\ lost = {}
    /\ scale \in 1..MaxScale
    /\ loop = FALSE
    /\ since = <<>>
    /\ ignoreEnv = <<>>
    /\ now = <<>>
    /\ clock = 1
    /\ next = iso8601(clock)
    /\ mainq = <<[op |-> "workers", pool |-> "inserter", task |-> NoTask],
                 [op |-> "send", pool |-> "inserter", task |-> reposTask],
                 [op |-> "workers", pool |-> "updater", task |-> NoTask],
                 [op |-> "send", pool |-> "updater", task |-> Task("queryCommits", 0, "", "", 0)],
                 [op |-> "send", pool |-> "updater", task |-> Task("queryPulls", 0, "", "", 0)],
                 [op |-> "wait", pool |-> "updater", task |-> NoTask]>>
    /\ closed = [p \in Pools |-> FALSE]
    /\ wk = [w \in Workers |-> Absent]
    /\ limit \in 1..MaxLimit
    /\ pullsTbl = {}
    /\ lastDrop = "none"
    /\ lastEnq = NoEnq

\* the steps of the two modes side by side.  main stays in wg.Wait(), as in
\* SpecUpdater; with at most MaxScale workers in the updater's pool the two
\* pollers leave no worker to take a pull closure
NextBoth ==
    \/ workers
    \/ mainSendClosed
    \/ clockTick
    \/ \E w \in Workers :
        \/ mainSend(w)
        \/ inserterWorker(w)
        \/ queryError(w)
        \/ queryRows(w)
        \/ queryDone(w)
        \/ commitFailed(w)
        \/ commitFetched(w)
        \/ sendClosed(w)

SpecBoth == InitBoth /\ [][NextBoth]_vars

(***************************************************************************)
(* SpecPulls: findOrCreatePulls on StoreScale workers.  No function of     *)
(* main.go calls it; the calls and their arguments are drawn here.  spage  *)
(* holds the arguments of a worker's call: the repo and, as its one item,  *)
(* the number.                                                             *)
(***************************************************************************)
PullNumbers == 1..MaxNumber

\* the columns of the tables of src/db.sql
Columns(table) ==
    IF table = "commits"
    THEN {"id", "org", "repo", "sha", "msg", "email", "date", "adds", "dels", "total"}
    ELSE {"id", "org", "repo", "number"}

\* INSERT INTO commits (org, repo, number) VALUES ($1, $2, $3)
InsertPull == [table |-> "commits", columns |-> {"org", "repo", "number"}]

\* the server rejects a statement that names a column its table does not have
Rejected(stmt) == ~(stmt.columns \subseteq Columns(stmt.table))

\* SELECT id FROM pulls WHERE org=$1 AND repo=$2 AND number=$3
SelectPull(tbl, repo, number) == {r \in tbl : r.repo = repo /\ r.number = number}

\* table pulls is empty or holds one row; table commits holds a row
InitPulls ==
    /\ commitsTbl = {EnrichedRow}
    /\ nextId = 2
    /\ crashed = FALSE
    /\ spc = [w \in StoreWorkers |-> "idle"]
    /\ spage = [w \in StoreWorkers |-> [repo |-> "x", shas |-> <<>>]]
    /\ discovered = {}
    /\ lost = {}
    /\ FetchIdle
    /\ scale = 0
    /\ loop = FALSE
    /\ since = <<>>
    /\ ignoreEnv = <<>>
    /\ now = <<>>
    /\ next = <<>>
    /\ clock = 0
    /\ mainq = <<>>
    /\ closed = [p \in Pools |-> FALSE]
    /\ wk = [w \in Workers |-> Absent]
    /\ limit = 1
    /\ pullsTbl \in {{}, {[id |-> 1, repo |-> "x", number |-> 1, commits |-> NULL]}}
    /\ lastDrop = "none"
    /\ lastEnq = NoEnq

pullsFrame == <<nextId, lost, fetchVars, poolConfig, now, next, clock, mainq, closed, wk,
                lastDrop, lastEnq>>

\* findOrCreatePulls(repo, number) is called
findOrCreatePulls(w) ==
    /\ ~crashed
    /\ spc[w] = "idle"
    /\ \E repo \in Repos, number \in PullNumbers :
          spage' = [spage EXCEPT ![w] = [repo |-> repo, shas |-> <<number>>]]
    /\ spc' = [spc EXCEPT ![w] = "query"]
    /\ UNCHANGED <<commitsTbl, pullsTbl, crashed, discovered, pullsFrame>>

\* findOrCreatePulls, the SELECT: a db error is fatal, a row found returns
findOrCreatePullsQuery(w) ==
    /\ ~crashed
    /\ spc[w] = "query"
    /\ LET repo == spage[w].repo
           number == Head(spage[w].shas)
       IN \E err \in BOOLEAN :
            IF err
            THEN /\ crashed' = TRUE
                 /\ UNCHANGED <<spc, discovered>>
            ELSE IF SelectPull(pullsTbl, repo, number) # {}
            THEN /\ spc' = [spc EXCEPT ![w] = "idle"]
                 /\ discovered' = discovered \cup {<<repo, number>>}
                 /\ UNCHANGED crashed
            ELSE /\ spc' = [spc EXCEPT ![w] = "insert"]
                 /\ UNCHANGED <<crashed, discovered>>
    /\ UNCHANGED <<commitsTbl, pullsTbl, spage, pullsFrame>>

\* findOrCreatePulls, the INSERT: any error is fatal; a statement the server
\* takes adds its row to the table it names
findOrCreatePullsInsert(w) ==
    /\ ~crashed
    /\ spc[w] = "insert"
    /\ LET repo == spage[w].repo
           number == Head(spage[w].shas)
       IN /\ discovered' = discovered \cup {<<repo, number>>}
          /\ IF Rejected(InsertPull) \/ InsertPull.table # "pulls"
                \/ SelectPull(pullsTbl, repo, number) # {}
             THEN /\ crashed' = TRUE
                  /\ UNCHANGED <<pullsTbl, spc>>
             ELSE /\ pullsTbl' = pullsTbl \cup {[id |-> Cardinality(pullsTbl) + 1, repo |-> repo,
                                                 number |-> number, commits |-> NULL]}
                  /\ spc' = [spc EXCEPT ![w] = "idle"]
                  /\ UNCHANGED crashed
    /\ UNCHANGED <<commitsTbl, spage, pullsFrame>>

NextPulls ==
    \E w \in StoreWorkers :
        \/ findOrCreatePulls(w)
        \/ findOrCreatePullsQuery(w)
        \/ findOrCreatePullsInsert(w)

SpecPulls == InitPulls /\ [][NextPulls]_vars

(***************************************************************************)
(* Claims on the fetch layer, checked under SpecFetch and SpecFetchFair.   *)
(***************************************************************************)
Range(f) == {f[k] : k \in DOMAIN f}

\* the chain of n pages, in order
Chain(n) == [k \in 1..n |-> k]

\* a step that ends an attempt (pre-flight check or GET) as throttled
ThrottledStep == fpc \in {"check", "do"} /\ fpc' = "loop" /\ resetIn' # 0

\* the step that sends the GET of url
GetStep == fpc = "do" /\ (fpc' # "do" \/ crashed')

\* C3: over a chain of N pages whose last page has no "next" link, with no
\* attempt throttled and every page answered 200, requests has handed the
\* handler the N pages, once each and in chain order, when it returns; with an
\* empty starting url it has handed it nothing.
C3_PagesInOrder ==
    (fpc = "returned" /\ throttled = {} /\ skipped = {}) => handled = Chain(npages)

\* C3 witness: requests returned from a chain of MaxPages pages, none
\* throttled, all handed.
C3_Witness ==
    /\ fpc = "returned"
    /\ npages = MaxPages
    /\ throttled = {}
    /\ Len(handled) = MaxPages

\* C4: an attempt that ends throttled (pre-flight or response headers) hands
\* nothing to the handler and leaves the url as it is; the url moves on only
\* in the step that hands its page to the handler (or that skips it for its
\* status), and no page is handed twice.
C4_ThrottledRetriesSamePage ==
    /\ [](\A j, k \in 1..Len(handled) : handled[j] = handled[k] => j = k)
    /\ [][ThrottledStep => (url' = url /\ handled' = handled)]_vars
    /\ [][(fpc = "do" /\ url' # url) =>
            (handled' = Append(handled, url) \/ url \in skipped')]_vars

\* C4 witness: after a page was handed, the next page was throttled and the
\* loop is about to try that same page again.
C4_Witness ==
    /\ fpc = "check"
    /\ url \in throttled
    /\ handled # <<>>
    /\ url \notin Range(handled)

\* C5 (as claimed): after a reading of remaining = 0 with the reset T seconds
\* ahead, the next GET of the resource is not sent before T seconds passed.
C5_NotBeforeReset == [][(GetStep /\ resetIn # 0) => elapsed >= resetIn]_vars

\* C5 (amended): after a reading of remaining = 0, the next GET of the
\* resource is not sent before `delay` seconds passed, whatever the reset is.
C5_NotBeforeDelay == [][(GetStep /\ resetIn # 0) => elapsed >= delay]_vars

\* C5 witness: the governor has slept after a throttled reading, the
\* pre-flight check passed, and the GET is about to go out before the reset.
C5_Witness ==
    /\ fpc = "do"
    /\ resetIn # 0
    /\ elapsed >= delay
    /\ elapsed < resetIn

\* C6: if the quota eventually is non-zero for good (and upstream answers
\* every GET with a page), every page with a throttled attempt is eventually
\* handed to the handler.
C6_ThrottledPageDelivered ==
    (<>[](quota = "ok") /\ [](~crashed) /\ [](skipped = {})) =>
        \A p \in 1..MaxPages : [](p \in throttled => <>(p \in Range(handled)))

\* C6 witness: requests returned after handing over a page that had been throttled
C6_Witness ==
    /\ fpc = "returned"
    /\ \E p \in throttled : p \in Range(handled)

(***************************************************************************)
(* Claims on the store, checked under SpecStore.                           *)
(***************************************************************************)
KeyOf(r) == <<r.repo, r.sha>>

\* C1: whatever the interleaving of findOrCreateCommits calls, the commits
\* table holds at most one row per natural key (org, repo, sha), and exactly
\* one for every key whose discovery call reached its end.
C1_OneRowPerKey ==
    /\ \A r1, r2 \in commitsTbl : KeyOf(r1) = KeyOf(r2) => r1 = r2
    /\ \A k \in discovered : Cardinality({r \in commitsTbl : KeyOf(r) = k}) = 1

\* C1 witness: two workers missed the lookup of one key and both inserted;
\* the loser was rejected and the key has its one row.
C1_Witness ==
    \E w \in lost :
        /\ <<spage[w].repo, Head(spage[w].shas)>> \in discovered
        /\ Cardinality(SelectCommit(commitsTbl, spage[w].repo, Head(spage[w].shas))) = 1

\* C2: when two workers race to insert one absent key, the loser's
\* uniqueness violation is swallowed: the process does not exit.
C2_RaceSwallowed == lost # {} => ~crashed

(***************************************************************************)
(* Claims on the inserter, checked under SpecInserter.                     *)
(***************************************************************************)
\* the time a timestamp in the layout iso8601 writes
TimeOf(s) == s[1] * 2 + s[2]

\* timestamp a is set and strictly before the set timestamp b
Before(a, b) == a # <<>> /\ b # <<>> /\ TimeOf(a) < TimeOf(b)

\* C7: a repository whose last-pushed timestamp is strictly before the active
\* watermark (now, the start of the previous pass, or the bound -since) has no
\* commit-listing task enqueued for it in that pass: the last commits task a
\* worker took off the channel came from an entry pushed neither before the
\* now of its pass nor before since.
C7_StaleNotEnqueued ==
    lastEnq.task.kind = "commits" =>
        /\ ~Before(lastEnq.pushed, lastEnq.now)
        /\ ~Before(lastEnq.pushed, since)

\* a pass with a watermark dropped a stale entry and enqueued another entry
C7_Witness ==
    /\ lastDrop = "stale"
    /\ lastEnq.task.kind = "commits"
    /\ lastEnq.now # <<>>
    /\ lastEnq.pushed = lastEnq.now

\* C8: a repository whose name is in the ignore set never has a task enqueued
\* for it, in any pass and whatever its last-pushed timestamp.
C8_IgnoredNotEnqueued ==
    /\ lastEnq.task.kind = "commits" => ~ignores(lastEnq.task.repo)
    /\ \A w \in Workers :
         /\ wk[w].out.kind = "commits" => ~ignores(wk[w].out.repo)
         /\ wk[w].task.kind = "commits" => ~ignores(wk[w].task.repo)

\* with an ignore set, an ignored entry was dropped and another repository's
\* commits task is running
C8_Witness ==
    /\ lastDrop = "ignored"
    /\ ignoreEnv # <<>>
    /\ \E w \in Workers : wk[w].task.kind = "commits" /\ wk[w].task.repo = "x"

(***************************************************************************)
(* Claims on the updater, checked under SpecUpdater and SpecUpdaterServed. *)
(***************************************************************************)
\* C9: given K commit rows with unset enrichment, a limit >= K and detail
\* fetches that all return decodable 200 responses (SpecUpdaterServed), the
\* polling of queryCommits under fair scheduling eventually reaches a state
\* in which no row has its enrichment unset.
C9_EnrichmentConverges ==
    limit >= Cardinality(commitsTbl) => <>(\A r \in commitsTbl : r.email # NULL)

\* C10: every enrichment write carries the data fetched from the detail url
\* built from the (repo, sha) of the row whose id is written: a row's
\* metadata, once set, is what upstream serves for that row's own commit.
C10_WriteMatchesRow ==
    \A r \in commitsTbl : r.email # NULL => r.email = <<r.repo, r.sha>>

\* two rows of the table have been enriched, each by its own detail fetch
C10_Witness ==
    /\ Cardinality({r \in commitsTbl : r.email # NULL}) >= 2
    /\ \A r \in commitsTbl : r.email # NULL => r.email = <<r.repo, r.sha>>

(***************************************************************************)
(* Claims on the pool and its channel.                                     *)
(***************************************************************************)
\* the worker goroutines main has started in pool p
StartedWorkers(p) == {w \in Workers : PoolOf(w) = p /\ wk[w].pc # "absent"}

\* every worker of pool p is blocked in a send on the open channel of the
\* pool: no goroutine is left to receive, none of the sends ever completes
AllBlockedInPush(p) ==
    /\ StartedWorkers(p) # {}
    /\ ~closed[p]
    /\ \A w \in StartedWorkers(p) : wk[w].pc = "push"

\* C11: a push from inside a task body never blocks forever: for every scale
\* >= 1 no reachable state has every worker blocked in a push with no worker
\* left to dequeue.
C11_PushNeverBlocks == ~crashed => \A p \in Pools : ~AllBlockedInPush(p)

\* C12: in non-looping inserter mode, once the repos driver has closed the
\* channel, nothing is pushed and no driver is left to close it again; and
\* unless a log.Fatal ends the process, every task handed to a worker before
\* the close runs to its end, every worker leaves its range and main's
\* wg.Wait() returns.
C12_CleanShutdown ==
    /\ [](closed["inserter"] =>
            \A w \in Workers : wk[w].pc # "push" /\ wk[w].task.kind # "repos")
    /\ closed["inserter"] ~>
            \/ crashed
            \/ mainq = <<>> /\ \A w \in StartedWorkers("inserter") : wk[w].pc = "exited"

\* a run of two workers that handed a commits task over, closed the channel
\* and came to the end of main
C12_Witness ==
    /\ ~loop /\ scale = 2
    /\ closed["inserter"]
    /\ lastEnq.task.kind = "commits"
    /\ mainq = <<>>
    /\ \A w \in StartedWorkers("inserter") : wk[w].pc = "exited"

\* C13: in one-shot updater mode the run stops cleanly when the polls return
\* no rows: the channel is closed at most once, and neither poller sends on,
\* or closes, a channel the other poller has already closed.
C13_OneShotStopsCleanly ==
    [][~loop => ~(\E w \in Workers : (sendClosed(w) \/ queryDone(w)) /\ crashed')]_vars

\* the workers that are running a closure
Executing == {w \in Workers : wk[w].pc \notin {"absent", "recv", "exited"}}

\* C14: at every moment the number of tasks being executed, over all stages
\* and whichever of the inserter and updater modes are enabled, is at most
\* the configured pool size scale.
C14_AtMostScaleTasks == Cardinality(Executing) <= scale

(***************************************************************************)
(* Claims on errors.                                                       *)
(***************************************************************************)
\* the workers of SpecStore inside a call of findOrCreateCommits
InStore == {w \in StoreWorkers : spc[w] # "idle"}

\* C15: a store error inside one task ends at most that task; the tasks in
\* flight on other workers go on and the pool stops only by the close of the
\* channel: the process is never ended while another worker is inside its
\* task (in SpecStore only a failed SELECT or INSERT ends the process).
C15_StoreErrorContained == Cardinality(InStore) >= 2 => ~crashed

\* C16: when a request fails at the transport level, request retries the same
\* url after a backoff and the process keeps running.  With etags nil
\* (~cache) a failed http.DefaultClient.Do is the only step of SpecFetch that
\* can end the process, so the process never ends.
C16_TransportFailureRetried == ~cache => ~crashed

\* C17: after a response with a status that is neither 200 nor 304 the
\* pagination of the resource is exhausted: the handler is not invoked, no
\* further page is requested even if the response carries a "next" link, and
\* the process goes on.  (With etags nil no response is a 304; a step that
\* adds to skipped has read such a status.)
C17_ErrorStatusEndsPagination ==
    [][(~cache /\ skipped' \ skipped # {}) =>
          (handled' = handled /\ ~crashed' /\ url' = NoUrl)]_vars

\* the step in which worker w, in repos, gets a listing page whose body does
\* not decode
DecodeFailure(w) ==
    /\ wk[w].task.kind = "repos" /\ wk[w].pc = "request"
    /\ \E np \in 0..MaxRepoPages : wk' = [wk EXCEPT ![w] = Undecoded(wk[w], np)]
    /\ wk' # wk

PassTurn ==
    \E w \in Workers :
        wk[w].task.kind = "repos" /\ wk[w].pc = "done" /\ wk'[w].pc = "push"

\* C19: in looping mode the watermark now is empty during the first pass;
\* at each turn to the next pass it becomes the timestamp captured (in next)
\* at the start of the pass that ends, while next captures the start of the
\* new pass; it does not change inside a pass and never decreases.
C19_WatermarkIsLastPassStart ==
    /\ now = <<>>
    /\ [][PassTurn => (now' = next /\ next' = iso8601(clock'))]_vars
    /\ [][~PassTurn => (now' = now /\ next' = next)]_vars
    /\ [][now # <<>> => (now' # <<>> /\ ~Before(now', now))]_vars
    /\ [](now # <<>> => ~Before(next, now))

\* the third pass: the watermark is the start of the second pass, later than
\* the start of the first
C19_Witness ==
    /\ loop
    /\ now # <<>> /\ Before(iso8601(1), now)
    /\ \E w \in Workers : wk[w].task.kind = "repos" /\ wk[w].pc = "loop"

(***************************************************************************)
(* Claims on discovery against rows already there (SpecStore).             *)
(***************************************************************************)
\* worker w is at the SELECT of findOrCreateCommits for a key that has a row
AtPresentKey(w) ==
    /\ spc[w] = "query"
    /\ \E r \in commitsTbl : KeyOf(r) = <<spage[w].repo, Head(spage[w].shas)>>

\* C20: findOrCreateCommits for a natural key that already has a row is a
\* no-op on the store: the call goes no further than its SELECT, no row is
\* added, and the row, any enrichment written to it included, stays as it
\* is (no step of discovery changes or removes a row).
C20_FindExistingIsNoOp ==
    /\ [][\A r \in commitsTbl : r \in commitsTbl']_vars
    /\ [][\A w \in StoreWorkers :
            (AtPresentKey(w) /\ (spc'[w] # spc[w] \/ spage'[w] # spage[w])) =>
                (commitsTbl' = commitsTbl /\ spc'[w] # "insert")]_vars

\* a call found the enriched row of an earlier run and returned; the row is
\* the only one and as it was
C20_Witness ==
    /\ commitsTbl = {EnrichedRow}
    /\ KeyOf(EnrichedRow) \in discovered

(***************************************************************************)
(* Claims on the enrichment write (SpecUpdater).                           *)
(***************************************************************************)
\* the metadata a detail fetch can hand to updateCommits
Metadata == {Served(commitUrl(repo, sha)) : repo \in Repos, sha \in Shas}

\* the ids of table commits
Ids(tbl) == {r.id : r \in tbl}

\* the row of tbl with that id
RowOf(tbl, id) == CHOOSE r \in tbl : r.id = id

\* tbl2 is tbl but for the enrichment of the row with that id
OnlyEnrichmentOf(tbl, tbl2, id) ==
    /\ Ids(tbl2) = Ids(tbl)
    /\ \A i \in Ids(tbl) :
         /\ KeyOf(RowOf(tbl2, i)) = KeyOf(RowOf(tbl, i))
         /\ i # id => RowOf(tbl2, i) = RowOf(tbl, i)

\* worker w is about to write the metadata of a row that was written before
Rewrites(w) ==
    /\ wk[w].pc = "request" /\ wk[w].task.kind = "commit"
    /\ \E r \in commitsTbl : r.id = wk[w].task.id /\ r.email # NULL

\* C21: updateCommits is idempotent and local.  On every table the updater
\* reaches, for every id and metadata, applying it twice gives what applying
\* it once gives, and one application changes nothing but the enrichment of
\* the row with that id: no other row, no natural key, no row added or
\* removed.  Every step of the updater that changes the table changes it so,
\* and the second write of a row's metadata leaves the table as it is.
C21_UpdateIdempotentLocal ==
    /\ [](\A id \in 1..(MaxRows + 1), data \in Metadata :
            LET once == updateCommits(commitsTbl, id, data)
            IN /\ updateCommits(once, id, data) = once
               /\ OnlyEnrichmentOf(commitsTbl, once, id)
               /\ id \in Ids(commitsTbl) => RowOf(once, id).email = data)
    /\ [][\A w \in Workers : commitFetched(w) =>
            /\ OnlyEnrichmentOf(commitsTbl, commitsTbl', wk[w].task.id)
            /\ Rewrites(w) => commitsTbl' = commitsTbl]_vars

\* a row's metadata has been written, a second write of the same row is about
\* to happen, and another row is still waiting for its own
C21_Witness ==
    /\ \E w \in Workers : Rewrites(w)
    /\ \E r \in commitsTbl : r.email = NULL
    /\ ~crashed

(***************************************************************************)
(* Claims on the discovery of pull requests (SpecPulls).                   *)
(***************************************************************************)
\* C22: a call of findOrCreatePulls(repo, number) that has ended leaves
\* exactly one record for (org, repo, number) in table pulls, its enrichment
\* unset, which the SELECT of queryPulls returns; the process is running and
\* table commits is as it was.
C22_PullRecorded ==
    /\ \A k \in discovered :
         /\ Cardinality(SelectPull(pullsTbl, k[1], k[2])) = 1
         /\ \E row \in UnsetPulls(pullsTbl) : row.repo = k[1] /\ row.number = k[2]
    /\ discovered # {} => ~crashed
    /\ commitsTbl = {EnrichedRow}

(***************************************************************************)
(* Claims on the pollers and the drivers (SpecUpdater, SpecInserter).      *)
(***************************************************************************)
\* worker w runs a poll (queryCommits or queryPulls) and is at that pc
PollerAt(w, pc) == wk[w].task.kind \in pollers /\ wk[w].pc = pc

\* the closure worker w is sending is received by a worker, which starts it
Handover(w) ==
    \E r \in Workers :
        /\ r # w /\ wk[r].pc = "recv"
        /\ wk'[r].task = wk[w].out /\ wk'[r].pc = StartPc(wk[w].out)

\* the detail-fetch closure of a row a poll returned
DetailOf(w, row) ==
    IF wk[w].task.kind = "queryCommits"
    THEN Task("commit", row.id, row.repo, row.sha, 0)
    ELSE Task("pull", row.id, row.repo, "", row.number)

\* C23: a poll that returns r >= 1 rows enqueues one detail-fetch task per
\* returned row, at most limit of them, and then exactly one requery task,
\* without sleeping and without closing the queue; a poll that returns no
\* row enqueues no detail-fetch task.  Step by step: the query hands back at
\* most limit rows; each send of the poll ends in the handover of the closure
\* of the row the loop is at, never in a panic; after the last row the poll
\* sends itself once, the channel and the clock as they were, and returns.
C23_PollEnqueuesRowsThenRequery ==
    [][\A w \in Workers :
        /\ (PollerAt(w, "query") /\ wk'[w] # wk[w]) =>
              /\ Len(wk'[w].rows) <= limit
              /\ wk'[w].rows = <<>> => (wk'[w].pc = "done" /\ ~wk'[w].more)
              /\ wk'[w].rows # <<>> =>
                    (wk'[w].pc = "push" /\ wk'[w].out = DetailOf(w, Head(wk'[w].rows)))
        /\ (PollerAt(w, "push") /\ (wk'[w] # wk[w] \/ sendClosed(w))) =>
              /\ ~crashed'
              /\ Handover(w)
              /\ wk[w].ret = "loop" =>
                    (wk'[w].more /\ wk'[w].rows = Tail(wk[w].rows) /\ wk'[w].task = wk[w].task)
              /\ wk[w].ret = "return" => wk'[w].pc = "recv"
        /\ (PollerAt(w, "done") /\ wk[w].more /\ wk'[w] # wk[w]) =>
              /\ wk'[w].pc = "push" /\ wk'[w].out = wk[w].task /\ wk'[w].ret = "return"
              /\ closed' = closed /\ clock' = clock]_vars

\* the kinds of driver task
Drivers == {"repos", "queryCommits", "queryPulls"}

\* the passes of driver kind k there are: one per worker running the driver
\* and one per send of it main has still to make.  A driver that is sending
\* its successor is one pass until the send completes, and so is the
\* successor from then on
Passes(k) ==
    Cardinality({w \in Workers : wk[w].task.kind = k})
        + Cardinality({i \in DOMAIN mainq : mainq[i].op = "send" /\ mainq[i].task.kind = k})

\* C24: in looping mode each driver invocation (repos, queryCommits,
\* queryPulls) sends exactly one successor of its kind, as its last
\* statement, and never closes the queue: no channel is ever closed, no
\* worker ever exits, there is at most one pass of each driver kind at any
\* time, and no step adds or removes a pass of a kind.
C24_LoopingKeepsOnePass ==
    /\ [](loop =>
            /\ \A p \in Pools : ~closed[p]
            /\ \A w \in Workers : wk[w].pc # "exited"
            /\ \A k \in Drivers : Passes(k) <= 1
            /\ \A w \in Workers :
                 (wk[w].task.kind \in Drivers /\ wk[w].pc = "push" /\ wk[w].ret = "return")
                     => wk[w].out = wk[w].task)
    /\ [][loop => \A k \in Drivers : Passes(k)' = Passes(k)]_vars

\* in looping mode a queryCommits poll that found no row left to enrich, a
\* successor of the poll that found the row, is sending its own successor
C24_Witness ==
    /\ loop /\ ~crashed
    /\ \E r \in commitsTbl : r.email # NULL
    /\ \E w \in Workers :
         /\ wk[w].task.kind = "queryCommits" /\ wk[w].pc = "push"
         /\ wk[w].ret = "return" /\ ~wk[w].more

(***************************************************************************)
(* Claims on conditional requests.  Under SpecFetchCached the map of       *)
(* tokens is in use and upstream answers a page with 200 or 304, so the    *)
(* step that adds a url to skipped has read a 304 to the token sent.       *)
(***************************************************************************)
\* the step of request that reads a response with another status than 200
NotDelivered == fpc = "do" /\ skipped' \ skipped # {}

\* C25: with the map of tokens in use, a not-modified (304) response for a
\* url is not handed to the handler, leaves the token of every url as it is,
\* and pagination goes on with the "next" link of that response: the next
\* page of the chain, or the end when the response has no such link.
C25_NotModifiedSkipsBody ==
    [][(cache /\ NotDelivered) =>
          /\ etags[url] # ""
          /\ handled' = handled
          /\ etags' = etags
          /\ ~crashed'
          /\ fpc' = "loop"
          /\ url' \in {NoUrl} \cup (IF url < npages THEN {url + 1} ELSE {})]_vars

\* in a later pass the first page was answered 304 to the token the earlier
\* pass had stored, and the loop is at the second page
C25_Witness ==
    /\ cache
    /\ 1 \in skipped
    /\ etags[1] # ""
    /\ handled = <<>>
    /\ url = 2

\* C26: with the map of tokens in use, a success response that carries no
\* validator token is handed to the handler and does not end the process:
\* the GET of a page, answered by upstream, never is the last step of the
\* process.  (Under SpecFetchCached the transport does not fail, so a process
\* that ended at the GET ended on the response.)
C26_TokenlessSuccessDelivered == (cache /\ fpc = "do") => ~crashed

(***************************************************************************)
(* Claims on the tokens of the repository listing (SpecFetchRepos: the     *)
(* calls of requests that repos makes, one per pass, every 200 with a      *)
(* token).                                                                 *)
(***************************************************************************)
\* C27: in looping inserter mode, once a pass has received a success response
\* with a token for a url of the repository listing, the request of the next
\* pass for that url sends that token.  request sends what the map of tokens
\* holds for the url, so: every page a pass was handed has its token in the
\* map, and the map is the same when the next pass starts.
C27_NextPassSendsToken ==
    /\ [](\A u \in Range(handled) : etags[u] \in Tokens)
    /\ [][(fpc = "returned" /\ fpc' = "loop") => etags' = etags]_vars

(***************************************************************************)
(* Claims on the two quota readings of an attempt (SpecFetch).             *)
(***************************************************************************)
\* C28: within one attempt of request the GET of the resource is sent only
\* after the pre-flight check of that attempt read remaining > 0, and the
\* handler is called only after the headers of the response to that GET read
\* remaining > 0 as well.  The GET is reached from the pre-flight check only,
\* in a step that reads a quota that is not zero; the handler is called in
\* the step of the GET only, and that step reads a quota that is not zero.
C28_BothReadingsBeforeHandler ==
    /\ [][fpc' = "do" => (fpc = "do" \/ (fpc = "check" /\ quota = "ok"))]_vars
    /\ [][handled' \notin {handled, <<>>} => (fpc = "do" /\ quota = "ok")]_vars
    /\ [][(fpc = "do" /\ quota = "zero" /\ fpc' # fpc) =>
             (handled' = handled /\ url' = url /\ fpc' = "loop")]_vars

\* a page was handed over, both readings of its attempt having read a quota
\* left; an attempt for the next page then read remaining = 0 and ended: that
\* page is not handed over and the loop is back at its url
C28_Witness ==
    /\ fpc = "loop"
    /\ quota = "zero"
    /\ url \in throttled
    /\ url \notin Range(handled)
    /\ handled # <<>>
    /\ resetIn # 0

(***************************************************************************)
(* Claims on nextUrl as a parser (SpecLink).                               *)
(***************************************************************************)
\* C29: for every list of link entries, whatever the position of the entry
\* with relation "next" among those with other relations and whether the
\* entries come in one comma-separated header value or in several, nextUrl
\* returns the url of the entry whose relation is "next", and the empty
\* string when there is no such entry.
C29_NextUrlByRelation ==
    linkGot.done =>
        LET es == Flatten(linkHdr)
            nexts == {k \in DOMAIN es : es[k].rel = "next"}
        IN IF nexts = {} THEN linkGot.url = <<>>
           ELSE \E k \in nexts : linkGot.url = es[k].url

(***************************************************************************)
(* Claims on what reposHandler enqueues (SpecInserterOnce).                *)
(***************************************************************************)
\* worker w runs reposHandler and is sending the task of the entry its loop is at
SendsEntry(w) ==
    wk[w].task.kind = "repos" /\ wk[w].pc = "push" /\ wk[w].ret = "loop"

\* C30: in a pass, every repository of a decoded listing page that is not
\* ignored and was pushed at or after every active bound gets exactly one
\* commit-listing task enqueued, for that repository.  The send reposHandler
\* is at is the send of commits(name) for the entry its loop is at, an entry
\* that passes the filter (a timestamp equal to a bound passes); and unless
\* the process ends, the send completes: a worker takes the task.
C30_PassingRepoEnqueued ==
    /\ [](\A w \in Workers : SendsEntry(w) =>
            LET r == Head(wk[w].rows)
            IN /\ wk[w].out = commitsTask(r.name)
               /\ ~ignores(r.name)
               /\ r.pushed # <<>> \/ (now = <<>> /\ since = <<>>)
               /\ ~Before(r.pushed, now) /\ ~Before(r.pushed, since))
    /\ \A w \in Workers : SendsEntry(w) ~> (crashed \/ ~SendsEntry(w))


(***************************************************************************)
(* C31: in looping inserter mode at most one commit-listing task of a      *)
(* repository is in flight: no two workers hold commits(repo) of the same  *)
(* repository at one time, a worker holding it being one that runs it or   *)
(* one that received it from the send of a pass.                           *)
(***************************************************************************)
\* worker w runs the commit-listing task of repository repo
ListsCommits(w, repo) == wk[w].task.kind = "commits" /\ wk[w].task.repo = repo

C31_OneListingPerRepo ==
    loop => \A repo \in Repos : \A w1, w2 \in Workers :
                (ListsCommits(w1, repo) /\ ListsCommits(w2, repo)) => w1 = w2

(***************************************************************************)
(* C32: the enrichment of a commit record is written once.  No two         *)
(* workers run the detail-fetch task of one record at a time, and no       *)
(* worker runs the detail-fetch task of a record whose enrichment is       *)
(* already written.                                                        *)
(***************************************************************************)
\* worker w runs commit(id, ...), the detail-fetch task of record id
FetchesDetail(w, id) == wk[w].task.kind = "commit" /\ wk[w].task.id = id

C32_EnrichedOnce ==
    \A id \in Ids(commitsTbl) :
        /\ \A w1, w2 \in Workers :
              (FetchesDetail(w1, id) /\ FetchesDetail(w2, id)) => w1 = w2
        /\ \A w \in Workers :
              FetchesDetail(w, id) => RowOf(commitsTbl, id).email = NULL

(***************************************************************************)
(* C33: in looping mode no change is lost to the watermark.  In pass k     *)
(* the filter keeps the repositories pushed at or after the start of pass  *)
(* k-1, and the passes after k keep only those pushed at or after the      *)
(* start of pass k: a repository on a page of pass k that no handler       *)
(* walked gets its commit-listing task in a later pass only if the         *)
(* watermark stays where it is.  So a pass whose listing went on past a    *)
(* page answered with a non-success status, or past a page that did not    *)
(* decode, does not move the watermark.                                    *)
(***************************************************************************)
\* the repos task of worker w is past its listing, which lost a page
CutShort(w) ==
    wk[w].task.kind = "repos" /\ wk[w].pc = "done" /\ wk[w].cut

C33_NoChangeLost ==
    [][\A w \in Workers : (loop /\ CutShort(w)) => now' = now]_vars

ReachesMap(w) == wk[w].task # NoTask /\ PassesEtags(wk[w].task.kind)

C35_OneWorkerAtTheMap ==
    /\ \A w1, w2 \in Workers : (ReachesMap(w1) /\ ReachesMap(w2)) => w1 = w2
    /\ \A w \in Workers : ReachesMap(w) <=> wk[w].task = reposTask

\* a later pass of the looping inserter: the successor driver is about to
\* request a page of the listing while the other worker runs a commit listing
C35_Witness ==
    /\ loop /\ now # <<>> /\ ~crashed
    /\ \E w1, w2 \in Workers :
         /\ wk[w1].task = reposTask /\ wk[w1].pc = "request"
         /\ wk[w2].task.kind = "commits" /\ wk[w2].pc = "commits"

====
